---------------------------- MODULE Spec2Model ----------------------------
(***************************************************************************)
(* langchain_compressa: the length-safe chunked embedding call of          *)
(* CompressaEmbeddings (embeddings.py) and the completion call of          *)
(* BaseCompressaLLM (llms.py), as state machines.                          *)
(*                                                                         *)
(* Numbers.  Embedding components are integers.  The token-weighted        *)
(* average of the code is a list of floats sum(val * weight) / total; it   *)
(* is kept exactly, as the numerators num[d] over the common denominator   *)
(* den.  The L2-normalised vector is kept as that average tagged           *)
(* "normalized": it stands for (num / den) / sqrt(sum((num[d]/den)^2)).    *)
(* A Python division by zero raises ZeroDivisionError.                     *)
(*                                                                         *)
(* Tokenizers.  The encoders (tiktoken, transformers) are external: a text *)
(* is given by the token-id sequence its encoder returns for it.  The      *)
(* transformers decoder renders a token slice as text, a sequence of       *)
(* characters, through TokenText.                                          *)
(***************************************************************************)
EXTENDS Integers, Sequences, FiniteSets, TLC

VARIABLES
    \* ---- CompressaEmbeddings and one embed_documents call
    emb_self,            \* the model's fields: tiktoken_enabled,
                         \* embedding_ctx_length, chunk_size, skip_empty
    texts,               \* the call's texts, each as its encoder's token ids
    epc,                 \* "start" | "batches" | "done" | "error"
    tokens,              \* _tokenize: the flat chunk list
    indices,             \* _tokenize: origin text of each chunk (0-based)
    offset,              \* the batch loop's i: number of batch offsets consumed
    batched_embeddings,  \* embeddings received so far, flat
    emb_requests,        \* inputs of the client.create calls, in issue order
    embeddings,          \* output of _process_batched_chunked_embeddings
    cached_empty,        \* _cached_empty_embedding
    emb_result,          \* the list the call returns
    emb_error,           \* the exception the call raises ("" when none)
    emb_call,            \* the call: surface "sync" (embed_documents) or
                         \* "async" (aembed_documents), chunk_size argument
    transport,           \* "reliable" | "faulty": whether requests may fail
    in_flight,           \* requests awaited: issued and not yet answered
    cfg,                 \* a CompressaEmbeddings constructor call: the keyword
                         \* arguments, the environment, and what came of it
    \* ---- BaseCompressaLLM and one _generate / _agenerate call
    llm_self,            \* the model's fields: n, best_of, streaming,
                         \* batch_size, max_tokens
    lpc,                 \* "new" | "invalid" | "ready" | "generating" |
                         \* "streaming" | "streamed" | "done" | "error"
    surface,             \* "sync" (_generate) | "async" (_agenerate)
    prompts,             \* the call's prompts
    sub_prompts,         \* get_sub_prompts: the prompts in groups of batch_size
    sub_i,               \* sub-batches already handled
    choices,             \* the flat list of choices collected so far
    llm_requests,        \* the client.create calls, in issue order
    generations,         \* LLMResult.generations
    llm_error,           \* the exception raised ("" when none)
    llm_case,            \* which inputs are drawn: "shape" (responses whose
                         \* choice count may be wrong), "payload" (stop
                         \* arguments, model_kwargs, error payloads, usage)
                         \* or "stream" (what the streams deliver)
    llm_call,            \* the call: entry "_generate" | "_stream" (the
                         \* surface says which variant), and the stop argument
    model_kwargs,        \* self.model_kwargs
    token_usage,         \* the token_usage dict of the call
    llm_responses,       \* the non-streaming responses, in arrival order
    system_fingerprint,  \* the call's system_fingerprint ("" for None)
    llm_output,          \* LLMResult.llm_output
    generation,          \* the streaming branch's running generation
    streams              \* per stream opened by the call, the stream
                         \* responses received on it, in arrival order

\* the caller's side of an embedding call
embEnv == <<emb_call, transport, cfg>>
embCtx == <<embEnv, in_flight>>

embVars == <<emb_self, texts, epc, tokens, indices, offset, batched_embeddings,
             emb_requests, embeddings, cached_empty, emb_result, emb_error,
             embCtx>>

\* what a completion call returns besides the generations
llmOut == <<system_fingerprint, llm_output>>

\* the streaming branch of a completion call
llmStream == <<generation, streams>>

\* the caller's side of a completion call
llmEnv == <<llm_case, llm_call, model_kwargs>>

llmVars == <<llm_self, lpc, surface, prompts, sub_prompts, sub_i, choices,
             llm_requests, generations, llm_error, llmEnv, token_usage,
             llm_responses, llmStream, llmOut>>

vars == <<embVars, llmVars>>

-----------------------------------------------------------------------------
(* Bounds of the model *)

MaxTexts == 2
MaxTokens == 3

\* token ids the encoders produce
TokenIds == {0, 1}

\* context limits and batch sizes tried
CtxLengths == {1, 2}
ChunkSizes == {1, 2}

\* embeddings the remote endpoint may return for a chunk: of different
\* dimensions, and cancelling in the dimension they share
RemoteEmbeddings == {<<1, 2>>, <<-1>>}

-----------------------------------------------------------------------------
(* Python helpers *)

Min(a, b) == IF a < b THEN a ELSE b

\* range(start, stop, step) for step > 0, as the sequence of its values
RECURSIVE Range(_, _, _)
Range(start, stop, step) ==
    IF start >= stop THEN <<>>
    ELSE <<start>> \o Range(start + step, stop, step)

\* s[a:b] for 0 <= a: Python clamps the slice to the sequence
Slice(s, a, b) == SubSeq(s, Min(a, Len(s)) + 1, Min(b, Len(s)))

RECURSIVE Sum(_)
Sum(s) == IF s = <<>> THEN 0 ELSE Head(s) + Sum(Tail(s))

RECURSIVE Flatten(_)
Flatten(ss) == IF ss = <<>> THEN <<>> ELSE Head(ss) \o Flatten(Tail(ss))

\* all sequences over S of length at most n
SeqsUpTo(S, n) == UNION {[1 .. k -> S] : k \in 0 .. n}


-----------------------------------------------------------------------------
(* Values of the aggregation *)

\* Optional[List[float]]: None, a vector as the endpoint returned it ("raw"),
\* or the normalised weighted average num/den ("normalized")
None == [kind |-> "None", vec |-> <<>>, den |-> 0]
Raw(v) == [kind |-> "raw", vec |-> v, den |-> 1]
Normalized(num, den) == [kind |-> "normalized", vec |-> num, den |-> den]

NoError == ""

-----------------------------------------------------------------------------
(* CompressaEmbeddings._tokenize *)

\* tokenizer.decode of one token id: the text piece it stands for.  Token 0
\* renders as the empty string (a lone word-boundary marker), token t > 0 as
\* 2 * t characters.
TokenText(t) == [k \in 1 .. 2 * t |-> "c"]

\* tokenizer.decode(token_chunk): the pieces of the chunk's tokens, joined
decode(token_chunk) ==
    Flatten([k \in 1 .. Len(token_chunk) |-> TokenText(token_chunk[k])])

\* a faulty slice, one token too long: consecutive chunks would overlap
TokenChunkOverlapping(tokenized, j, ctx) == Slice(tokenized, j, j + ctx + 1)

\* token[j : j + self.embedding_ctx_length]
TokenChunk(tokenized, j, ctx) == Slice(tokenized, j, j + ctx)

\* the chunk appended to `tokens`: the token slice itself under tiktoken, its
\* decoded text under transformers
ChunkSent(tiktoken_enabled, token_chunk) ==
    IF tiktoken_enabled THEN token_chunk ELSE decode(token_chunk)

\* the inner loop over one text: for j in range(0, len(token), ctx)
ChunksOfText(self, tokenized) ==
    LET js == Range(0, Len(tokenized), self.embedding_ctx_length)
    IN  [k \in 1 .. Len(js) |->
            ChunkSent(self.tiktoken_enabled,
                      TokenChunk(tokenized, js[k], self.embedding_ctx_length))]

\* the outer loop, for i, text in enumerate(texts), from text i on:
\* the pair of lists (tokens, indices)
RECURSIVE TokenizeFrom(_, _, _)
TokenizeFrom(self, txts, i) ==
    IF i >= Len(txts) THEN [tokens |-> <<>>, indices |-> <<>>]
    ELSE LET mine == ChunksOfText(self, txts[i + 1])
             rest == TokenizeFrom(self, txts, i + 1)
         IN  [tokens  |-> mine \o rest.tokens,
              indices |-> [k \in 1 .. Len(mine) |-> i] \o rest.indices]

\* _iter = range(0, len(tokens), chunk_size), with or without the progress bar
BatchOffsets(n, chunk_size) == Range(0, n, chunk_size)

_tokenize(self, txts, chunk_size) ==
    LET r == TokenizeFrom(self, txts, 0)
    IN  [iter    |-> BatchOffsets(Len(r.tokens), chunk_size),
         tokens  |-> r.tokens,
         indices |-> r.indices]

-----------------------------------------------------------------------------
(* _process_batched_chunked_embeddings *)

\* a faulty weight: every chunk counts once, whatever its length
ChunkWeightUnit(chunk) == 1

\* len(tokens[i]): the weight of chunk i
ChunkWeight(chunk) == Len(chunk)

\* a faulty routing: every chunk filed under the first text
OriginFirstText(idx, i) == 0

\* results[indices[i]].append(...): the text a chunk is filed under
Origin(idx, i) == idx[i]

\* the first loop: results and num_tokens_in_batch, per text 0 .. num_texts-1
RECURSIVE ChunkLoop(_, _, _, _, _, _)
ChunkLoop(i, acc, toks, be, idx, skip) ==
    IF i > Len(idx) THEN acc
    ELSE IF skip /\ Len(be[i]) = 1
         THEN ChunkLoop(i + 1, acc, toks, be, idx, skip)
         ELSE ChunkLoop(i + 1,
                  [results |->
                      [acc.results EXCEPT ![Origin(idx, i)] = Append(@, be[i])],
                   num_tokens_in_batch |->
                      [acc.num_tokens_in_batch EXCEPT
                          ![Origin(idx, i)] = Append(@, ChunkWeight(toks[i]))]],
                  toks, be, idx, skip)

\* zip(*_result): one tuple per dimension, cut to the shortest embedding
RECURSIVE MinLen(_)
MinLen(vs) ==
    IF Len(vs) = 1 THEN Len(vs[1]) ELSE Min(Len(Head(vs)), MinLen(Tail(vs)))

Zip(vs) == [d \in 1 .. MinLen(vs) |-> [c \in 1 .. Len(vs) |-> vs[c][d]]]

\* a faulty division that never raises (IEEE semantics: inf or nan instead)
DivisionNeverRaises(divisor) == FALSE

\* Python's x / y raises ZeroDivisionError when y is zero
DivisionRaises(divisor) == divisor = 0

\* the else branch: the weighted average and its normalisation
WeightedAverage(_result, weights) ==
    LET total_weight == Sum(weights)
        cols == Zip(_result)
        num  == [d \in 1 .. Len(cols) |->
                    Sum([c \in 1 .. Len(weights) |-> cols[d][c] * weights[c]])]
        \* magnitude = sqrt(sum((num[d] / total_weight)^2)), zero exactly
        \* when sum(num[d]^2) is
        magnitude2 == Sum([d \in 1 .. Len(num) |-> num[d] * num[d]])
    IN  IF Len(cols) > 0 /\ DivisionRaises(total_weight)
        THEN [error |-> "ZeroDivisionError", value |-> None]
        ELSE IF Len(cols) > 0 /\ DivisionRaises(magnitude2)
        THEN [error |-> "ZeroDivisionError", value |-> None]
        ELSE [error |-> NoError, value |-> Normalized(num, total_weight)]

\* a faulty single-chunk branch: it normalises the embedding as well
SingleChunkNormalized(_result) == Normalized(_result[1], 1)

\* elif len(_result) == 1: embeddings.append(_result[0])
SingleChunk(_result) == Raw(_result[1])

\* the second loop's body for one text
AggregateText(_result, weights) ==
    IF Len(_result) = 0 THEN [error |-> NoError, value |-> None]
    ELSE IF Len(_result) = 1
         THEN [error |-> NoError, value |-> SingleChunk(_result)]
         ELSE WeightedAverage(_result, weights)

_process_batched_chunked_embeddings(num_texts, toks, be, idx, skip) ==
    IF Len(be) < Len(idx)
    THEN [error |-> "IndexError", embeddings |-> <<>>]
    ELSE
    LET empty == [t \in 0 .. num_texts - 1 |-> <<>>]
        acc == ChunkLoop(1, [results |-> empty, num_tokens_in_batch |-> empty],
                         toks, be, idx, skip)
        per == [t \in 1 .. num_texts |->
                   AggregateText(acc.results[t - 1],
                                 acc.num_tokens_in_batch[t - 1])]
        failed == {t \in 1 .. num_texts : per[t].error # NoError}
    IN  IF failed # {}
        THEN [error |-> per[CHOOSE t \in failed : \A u \in failed : t <= u].error,
              embeddings |-> <<>>]
        ELSE [error |-> NoError,
              embeddings |-> [t \in 1 .. num_texts |-> per[t].value]]

-----------------------------------------------------------------------------
(* _get_len_safe_embeddings / _aget_len_safe_embeddings *)

\* chunk_size or self.chunk_size (None and 0 are falsy)
ChunkSizeOr(chunk_size, self) ==
    IF chunk_size = 0 THEN self.chunk_size ELSE chunk_size

\* a faulty window: one chunk per request, whatever the batch size
BatchInputOne(toks, i, chunk_size) == Slice(toks, i, i + 1)

\* tokens[i : i + _chunk_size]
BatchInput(toks, i, chunk_size) == Slice(toks, i, i + chunk_size)

\* a faulty closure without its cache: it calls the endpoint every time
EmptyAlwaysCalls(cache) == TRUE

\* empty_embedding(): whether the closure calls the endpoint
EmptyCalls(cache) == cache = None

\* [e if e is not None else empty_embedding() for e in embeddings], given the
\* embedding `resp` the endpoint returns for the input ""
RECURSIVE FillEmpty(_, _, _)
FillEmpty(embs, cache, resp) ==
    IF embs = <<>> THEN [result |-> <<>>, cache |-> cache, calls |-> 0]
    ELSE IF Head(embs) # None
         THEN LET rest == FillEmpty(Tail(embs), cache, resp)
              IN  [rest EXCEPT !.result = <<Head(embs)>> \o @]
         ELSE LET call == EmptyCalls(cache)
                  now  == IF call THEN Raw(resp) ELSE cache
                  rest == FillEmpty(Tail(embs), now, resp)
              IN  [result |-> <<now>> \o rest.result,
                   cache  |-> rest.cache,
                   calls  |-> rest.calls + (IF call THEN 1 ELSE 0)]

BatchRequestRec(input) == [kind |-> "batch", input |-> input]
EmptyRequestRec == [kind |-> "text", input |-> <<>>]

\* what a well-formed endpoint may answer to a batch: one embedding per chunk
Responses(n) == [1 .. n -> RemoteEmbeddings]

-----------------------------------------------------------------------------
(* The constructor of CompressaEmbeddings *)

\* {**f, **g}
Merge(f, g) ==
    [k \in DOMAIN f \cup DOMAIN g |-> IF k \in DOMAIN g THEN g[k] ELSE f[k]]

\* {k: f[k] for k in f if k in S}
Restrict(f, S) == [k \in DOMAIN f \cap S |-> f[k]]

EmptyDict == [k \in {} |-> ""]

\* line 97: the bases of the class statement.  The file imports Extra, Field
\* and root_validator from pydantic_v1 (lines 22-26) and no BaseModel.
EmbeddingsBases == {"Embeddings"}

\* whether instantiation goes through pydantic: fields filled from keyword
\* arguments and the root validators run
IsPydanticModel(bases) == "BaseModel" \in bases

\* get_pydantic_field_names(cls), were the class a model: the annotated
\* attributes of lines 112-131 and the alias of line 113
all_required_field_names ==
    {"model", "compressa_api_base", "base_url", "chunk_size", "client",
     "async_client", "tiktoken_enabled", "tiktoken_model_name",
     "show_progress_bar", "model_kwargs", "allowed_special",
     "disallowed_special", "skip_empty", "embedding_ctx_length",
     "check_embedding_ctx_length"}

\* lines 141-165 on values = top plus, when given, model_kwargs = kw
build_extra(top, kw) ==
    LET twice == DOMAIN top \cap DOMAIN kw
        moved == DOMAIN top \ all_required_field_names
        extra == Merge(kw, Restrict(top, moved))
    IN  IF twice # {}
        THEN [error |-> "ValueError: supplied twice", values |-> EmptyDict,
              model_kwargs |-> EmptyDict, warnings |-> {}]
        ELSE IF all_required_field_names \cap DOMAIN extra # {}
        THEN [error |-> "ValueError: should be specified explicitly",
              values |-> EmptyDict, model_kwargs |-> EmptyDict,
              warnings |-> moved]
        ELSE [error |-> NoError,
              values |-> Restrict(top, all_required_field_names),
              model_kwargs |-> extra, warnings |-> moved]

\* lines 171-176: get_from_dict_or_env(values, "compressa_api_key",
\* "COMPRESSA_API_KEY"): the value in values, else the environment variable,
\* else a ValueError
compressa_api_key(values, env_key) ==
    IF "compressa_api_key" \in DOMAIN values
    THEN [error |-> NoError, key |-> values["compressa_api_key"]]
    ELSE IF env_key
    THEN [error |-> NoError, key |-> "env"]
    ELSE [error |-> "ValueError: Did not find compressa_api_key", key |-> ""]

\* lines 182-185: {"model": self.model, **self.model_kwargs}
_invocation_params(model, kwargs) ==
    Merge([k \in {"model"} |-> model], kwargs)

\* the class attribute of line 112 and of line 124 (its one key)
DefaultModel == "/app/resources/models/models/Salesforce_SFR-Embedding-Mistral"
DefaultModelKwargs == [k \in {"encoding_format"} |-> "float"]

\* instantiation.  A pydantic model runs build_extra, fills the fields, then
\* runs validate_environment.  A plain class has object.__init__, which takes
\* no keyword argument and leaves the class attributes as they are.
Instantiate(bases, top, kw, has_kw, env_key) ==
    IF IsPydanticModel(bases)
    THEN LET b == build_extra(top, kw)
             c == compressa_api_key(b.values, env_key)
         IN  IF b.error # NoError
             THEN [error |-> b.error, warnings |-> b.warnings,
                   params |-> EmptyDict, credential |-> ""]
             ELSE IF c.error # NoError
             THEN [error |-> c.error, warnings |-> b.warnings,
                   params |-> EmptyDict, credential |-> ""]
             ELSE [error |-> NoError, warnings |-> b.warnings,
                   params |-> _invocation_params(
                       IF "model" \in DOMAIN b.values THEN b.values["model"]
                       ELSE DefaultModel, b.model_kwargs),
                   credential |-> c.key]
    ELSE IF DOMAIN top # {} \/ has_kw
         THEN [error |-> "TypeError: CompressaEmbeddings() takes no arguments",
               warnings |-> {}, params |-> EmptyDict, credential |-> ""]
         ELSE [error |-> NoError, warnings |-> {},
               params |-> _invocation_params(DefaultModel, DefaultModelKwargs),
               credential |-> ""]

\* keyword arguments tried: a field, the key, a passthrough parameter and the
\* name the request itself uses
TopKeys == {"model", "compressa_api_key", "user", "input"}
KwKeys == {"model", "user", "dimensions"}

\* no constructor call is studied
NoConfig ==
    [pc |-> "idle", top |-> EmptyDict, kw |-> EmptyDict, has_kw |-> FALSE,
     env_key |-> FALSE, error |-> NoError, warnings |-> {},
     params |-> EmptyDict, credential |-> ""]

-----------------------------------------------------------------------------
(* The embedding call *)

TotalTokens(txts) == Sum([k \in 1 .. Len(txts) |-> Len(txts[k])])

TextLists ==
    {txts \in SeqsUpTo(SeqsUpTo(TokenIds, MaxTokens), MaxTexts) :
        TotalTokens(txts) <= MaxTokens}

\* generation: Optional[GenerationChunk] = None
NoGeneration == [set |-> FALSE, text |-> <<>>]

\* stop: Optional[List[str]] = None
NoStop == [given |-> FALSE, value |-> <<>>]

\* no completion model exists while the embedding call is studied
LLMIdle ==
    /\ llm_self = [n |-> 1, best_of |-> 1, streaming |-> FALSE,
                   batch_size |-> 1, max_tokens |-> 256]
    /\ lpc = "idle"
    /\ surface = "sync"
    /\ prompts = <<>>
    /\ sub_prompts = <<>>
    /\ sub_i = 0
    /\ choices = <<>>
    /\ llm_requests = <<>>
    /\ generations = <<>>
    /\ llm_error = NoError
    /\ llm_case = "shape"
    /\ llm_call = [entry |-> "none", stop |-> NoStop]
    /\ model_kwargs = <<>>
    /\ token_usage = <<>>
    /\ llm_responses = <<>>
    /\ system_fingerprint = ""
    /\ llm_output = <<>>
    /\ generation = NoGeneration
    /\ streams = <<>>

InitEmb ==
    /\ LLMIdle
    /\ emb_self \in [tiktoken_enabled : BOOLEAN,
                     embedding_ctx_length : CtxLengths,
                     chunk_size : ChunkSizes,
                     skip_empty : BOOLEAN]
    /\ texts \in TextLists
    /\ epc = "start"
    /\ tokens = <<>>
    /\ indices = <<>>
    /\ offset = 0
    /\ batched_embeddings = <<>>
    /\ emb_requests = <<>>
    /\ embeddings = <<>>
    /\ cached_empty = None
    /\ emb_result = <<>>
    /\ emb_error = NoError
    /\ emb_call = [surface |-> "sync", chunk_size |-> 0]
    /\ transport = "reliable"
    /\ cfg = NoConfig
    /\ in_flight = <<>>

\* the chunk_size that embed_documents / aembed_documents hand on to the
\* length-safe call: none, whatever their own chunk_size argument is
PassedChunkSize(call) == 0

\* the batch size of the call: chunk_size or self.chunk_size
CallChunkSize == ChunkSizeOr(PassedChunkSize(emb_call), emb_self)

\* lines 296-298: _chunk_size, _tokenize, batched_embeddings = []
Tokenize ==
    /\ emb_call.surface = "sync"
    /\ epc = "start"
    /\ LET r == _tokenize(emb_self, texts, CallChunkSize)
       IN  /\ tokens' = r.tokens
           /\ indices' = r.indices
    /\ epc' = "batches"
    /\ UNCHANGED <<emb_self, texts, offset, batched_embeddings, emb_requests,
                   embeddings, cached_empty, emb_result, emb_error, embCtx>>
    /\ UNCHANGED llmVars

\* one turn of "for i in _iter": a request and its response
BatchRequest ==
    /\ emb_call.surface = "sync"
    /\ epc = "batches"
    /\ LET iter == BatchOffsets(Len(tokens), CallChunkSize)
       IN  /\ offset < Len(iter)
           /\ LET input == BatchInput(tokens, iter[offset + 1], CallChunkSize)
              IN  /\ emb_requests' = Append(emb_requests, BatchRequestRec(input))
                  /\ \E response \in Responses(Len(input)) :
                        batched_embeddings' = batched_embeddings \o response
    /\ offset' = offset + 1
    /\ UNCHANGED <<emb_self, texts, epc, tokens, indices, embeddings,
                   cached_empty, emb_result, emb_error, embCtx>>
    /\ UNCHANGED llmVars

\* lines 307-323: aggregation, then the empty-string post-pass
ProcessAndReturn ==
    /\ emb_call.surface = "sync"
    /\ epc = "batches"
    /\ offset >= Len(BatchOffsets(Len(tokens), CallChunkSize))
    /\ \E p \in {_process_batched_chunked_embeddings(
                    Len(texts), tokens, batched_embeddings, indices,
                    emb_self.skip_empty)} :
           IF p.error # NoError
           THEN /\ epc' = "error"
                /\ emb_error' = p.error
                /\ UNCHANGED <<embeddings, cached_empty, emb_result,
                               emb_requests>>
           ELSE \E resp \in RemoteEmbeddings :
                  \E f \in {FillEmpty(p.embeddings, None, resp)} :
                      /\ embeddings' = p.embeddings
                      /\ cached_empty' = f.cache
                      /\ emb_result' = f.result
                      /\ emb_requests' =
                            emb_requests \o [k \in 1 .. f.calls |-> EmptyRequestRec]
                      /\ epc' = "done"
                      /\ UNCHANGED emb_error
    /\ UNCHANGED <<emb_self, texts, tokens, indices, offset, batched_embeddings,
                   embCtx>>
    /\ UNCHANGED llmVars

NextEmb == Tokenize \/ BatchRequest \/ ProcessAndReturn

\* lines 296-323 as a whole: the requests the synchronous call issues and what
\* it returns or raises, given the embeddings `be` its batch requests are
\* answered with (flat, in order) and the embedding `resp` returned for ""
_get_len_safe_embeddings(be, resp) ==
    LET r == _tokenize(emb_self, texts, CallChunkSize)
        batches == [k \in 1 .. Len(r.iter) |->
                       BatchRequestRec(
                           BatchInput(r.tokens, r.iter[k], CallChunkSize))]
        p == _process_batched_chunked_embeddings(
                 Len(texts), r.tokens, be, r.indices, emb_self.skip_empty)
        f == FillEmpty(p.embeddings, None, resp)
    IN  IF p.error # NoError
        THEN [requests |-> batches, result |-> <<>>, error |-> p.error]
        ELSE [requests |-> batches \o [k \in 1 .. f.calls |-> EmptyRequestRec],
              result |-> f.result, error |-> NoError]

SpecEmb == InitEmb /\ [][NextEmb]_vars

-----------------------------------------------------------------------------
(* The embedding call on the cooperative surface: _aget_len_safe_embeddings *)

\* a faulty await that lets the coroutine run on with its request unanswered
NeverSuspended(pending) == FALSE

\* await: the coroutine is suspended while the request it awaits is unanswered
Suspended(pending) == pending # <<>>

\* a faulty loop range that advances by one chunk, whatever the batch size
ABatchOffsetsByOne(n, chunk_size) == Range(0, n, 1)

\* line 347: range(0, len(tokens), _chunk_size), computed anew
ABatchOffsets(n, chunk_size) == Range(0, n, chunk_size)

\* line 349: tokens[i : i + _chunk_size]
ABatchInput(toks, i, chunk_size) == Slice(toks, i, i + chunk_size)

\* line 363: if _cached_empty_embedding is None
AEmptyCalls(cache) == cache = None

\* line 372 up to entry k: whether some e is None among embeddings[1 .. k]
NoneAmong(embs) == \E k \in 1 .. Len(embs) : embs[k] = None

\* line 372: each None replaced by what empty_embedding() returned
AFilled(embs, cache) ==
    [k \in 1 .. Len(embs) |-> IF embs[k] # None THEN embs[k] ELSE cache]

\* one aembed_documents call on the texts and model of InitEmb
InitAEmb ==
    /\ LLMIdle
    /\ emb_self \in [tiktoken_enabled : BOOLEAN,
                     embedding_ctx_length : CtxLengths,
                     chunk_size : ChunkSizes,
                     skip_empty : BOOLEAN]
    /\ texts \in TextLists
    /\ epc = "start"
    /\ tokens = <<>>
    /\ indices = <<>>
    /\ offset = 0
    /\ batched_embeddings = <<>>
    /\ emb_requests = <<>>
    /\ embeddings = <<>>
    /\ cached_empty = None
    /\ emb_result = <<>>
    /\ emb_error = NoError
    /\ emb_call = [surface |-> "async", chunk_size |-> 0]
    /\ transport = "reliable"
    /\ cfg = NoConfig
    /\ in_flight = <<>>

\* lines 343-346: _chunk_size, _tokenize, batched_embeddings = []
ATokenize ==
    /\ emb_call.surface = "async"
    /\ epc = "start"
    /\ LET r == _tokenize(emb_self, texts, CallChunkSize)
       IN  /\ tokens' = r.tokens
           /\ indices' = r.indices
    /\ epc' = "batches"
    /\ UNCHANGED <<emb_self, texts, offset, batched_embeddings, emb_requests,
                   embeddings, cached_empty, emb_result, emb_error, embCtx>>
    /\ UNCHANGED llmVars

\* lines 347-350: the loop reaches its next offset and issues the request
ASendBatch ==
    /\ emb_call.surface = "async"
    /\ epc = "batches"
    /\ ~Suspended(in_flight)
    /\ LET iter == ABatchOffsets(Len(tokens), CallChunkSize)
           turn == offset + Len(in_flight)
       IN  /\ turn < Len(iter)
           /\ LET req == BatchRequestRec(
                            ABatchInput(tokens, iter[turn + 1], CallChunkSize))
              IN  /\ emb_requests' = Append(emb_requests, req)
                  /\ in_flight' = Append(in_flight, req)
    /\ UNCHANGED <<emb_self, texts, epc, tokens, indices, offset,
                   batched_embeddings, embeddings, cached_empty, emb_result,
                   emb_error, embEnv>>
    /\ UNCHANGED llmVars

\* lines 348-354: the awaited response arrives and is appended
AReceiveBatch ==
    /\ emb_call.surface = "async"
    /\ epc = "batches"
    /\ in_flight # <<>>
    /\ \E response \in Responses(Len(Head(in_flight).input)) :
          batched_embeddings' = batched_embeddings \o response
    /\ offset' = offset + 1
    /\ in_flight' = Tail(in_flight)
    /\ UNCHANGED <<emb_self, texts, epc, tokens, indices, emb_requests,
                   embeddings, cached_empty, emb_result, emb_error, embEnv>>
    /\ UNCHANGED llmVars

\* lines 356-359: aggregation
AProcess ==
    /\ emb_call.surface = "async"
    /\ epc = "batches"
    /\ in_flight = <<>>
    /\ offset >= Len(ABatchOffsets(Len(tokens), CallChunkSize))
    /\ \E p \in {_process_batched_chunked_embeddings(
                    Len(texts), tokens, batched_embeddings, indices,
                    emb_self.skip_empty)} :
           IF p.error # NoError
           THEN /\ epc' = "error"
                /\ emb_error' = p.error
                /\ UNCHANGED embeddings
           ELSE /\ embeddings' = p.embeddings
                /\ epc' = "filling"
                /\ UNCHANGED emb_error
    /\ UNCHANGED <<emb_self, texts, tokens, indices, offset, batched_embeddings,
                   emb_requests, cached_empty, emb_result, embCtx>>
    /\ UNCHANGED llmVars

\* lines 361-366, reached from line 372 at an entry that is None: the
\* closure issues the request for the input ""
ASendEmpty ==
    /\ emb_call.surface = "async"
    /\ epc = "filling"
    /\ ~Suspended(in_flight)
    /\ NoneAmong(embeddings)
    /\ AEmptyCalls(cached_empty)
    /\ emb_requests' = Append(emb_requests, EmptyRequestRec)
    /\ in_flight' = Append(in_flight, EmptyRequestRec)
    /\ UNCHANGED <<emb_self, texts, epc, tokens, indices, offset,
                   batched_embeddings, embeddings, cached_empty, emb_result,
                   emb_error, embEnv>>
    /\ UNCHANGED llmVars

\* lines 364-370: the awaited response to "" arrives and is cached
AReceiveEmpty ==
    /\ emb_call.surface = "async"
    /\ epc = "filling"
    /\ in_flight # <<>>
    /\ \E resp \in RemoteEmbeddings : cached_empty' = Raw(resp)
    /\ in_flight' = Tail(in_flight)
    /\ UNCHANGED <<emb_self, texts, epc, tokens, indices, offset,
                   batched_embeddings, emb_requests, embeddings, emb_result,
                   emb_error, embEnv>>
    /\ UNCHANGED llmVars

\* line 372: the comprehension completes and the list is returned
AReturn ==
    /\ emb_call.surface = "async"
    /\ epc = "filling"
    /\ in_flight = <<>>
    /\ NoneAmong(embeddings) => ~AEmptyCalls(cached_empty)
    /\ emb_result' = AFilled(embeddings, cached_empty)
    /\ epc' = "done"
    /\ UNCHANGED <<emb_self, texts, tokens, indices, offset, batched_embeddings,
                   emb_requests, embeddings, cached_empty, emb_error, embCtx>>
    /\ UNCHANGED llmVars

NextAEmb ==
    \/ ATokenize
    \/ ASendBatch
    \/ AReceiveBatch
    \/ AProcess
    \/ ASendEmpty
    \/ AReceiveEmpty
    \/ AReturn

SpecAEmb == InitAEmb /\ [][NextAEmb]_vars

-----------------------------------------------------------------------------
(* embed_documents / aembed_documents over a transport that may fail *)

\* what client.create may raise instead of answering: a connection error, a
\* timeout and, for an awaited request, the cancellation of the task
Failures(sf) ==
    {"APIConnectionError", "APITimeoutError"} \cup
        (IF sf = "async" THEN {"CancelledError"} ELSE {})

\* a faulty loop that catches the exception and goes on to the next batch
SwallowFailure(err) == "batches"

\* no try/except encloses client.create: the exception leaves the loop and
\* the call
OnFailure(err) == "error"

\* a call of either surface with any chunk_size argument (0: none given), on
\* a tiktoken model that skips nothing
InitDoc ==
    /\ LLMIdle
    /\ emb_self \in [tiktoken_enabled : {TRUE},
                     embedding_ctx_length : CtxLengths,
                     chunk_size : ChunkSizes,
                     skip_empty : {FALSE}]
    /\ texts \in TextLists
    /\ epc = "start"
    /\ tokens = <<>>
    /\ indices = <<>>
    /\ offset = 0
    /\ batched_embeddings = <<>>
    /\ emb_requests = <<>>
    /\ embeddings = <<>>
    /\ cached_empty = None
    /\ emb_result = <<>>
    /\ emb_error = NoError
    /\ emb_call \in [surface : {"sync", "async"}, chunk_size : {0} \cup ChunkSizes]
    /\ transport = "faulty"
    /\ cfg = NoConfig
    /\ in_flight = <<>>

\* lines 300-302: client.create raises instead of returning
BatchRequestFails ==
    /\ emb_call.surface = "sync"
    /\ transport = "faulty"
    /\ epc = "batches"
    /\ LET iter == BatchOffsets(Len(tokens), CallChunkSize)
       IN  /\ offset < Len(iter)
           /\ emb_requests' = Append(emb_requests,
                 BatchRequestRec(BatchInput(tokens, iter[offset + 1],
                                            CallChunkSize)))
    /\ \E err \in Failures(emb_call.surface) :
          /\ emb_error' = err
          /\ epc' = OnFailure(err)
    /\ UNCHANGED <<emb_self, texts, tokens, indices, offset, batched_embeddings,
                   embeddings, cached_empty, emb_result, embCtx>>
    /\ UNCHANGED llmVars

\* lines 348-350: the awaited batch request raises instead of answering
AReceiveFails ==
    /\ emb_call.surface = "async"
    /\ transport = "faulty"
    /\ epc = "batches"
    /\ in_flight # <<>>
    /\ \E err \in Failures(emb_call.surface) :
          /\ emb_error' = err
          /\ epc' = OnFailure(err)
    /\ in_flight' = Tail(in_flight)
    /\ UNCHANGED <<emb_self, texts, tokens, indices, offset, batched_embeddings,
                   emb_requests, embeddings, cached_empty, emb_result, embEnv>>
    /\ UNCHANGED llmVars

NextDoc ==
    \/ NextEmb
    \/ NextAEmb
    \/ BatchRequestFails
    \/ AReceiveFails

SpecDoc == InitDoc /\ [][NextDoc]_vars

-----------------------------------------------------------------------------
(* Constructing the embedding model *)

\* a constructor call about to be made: keyword arguments (a top-level value
\* is "t", a value inside model_kwargs is "k"), and whether the environment
\* variable COMPRESSA_API_KEY is set
InitCfg ==
    /\ LLMIdle
    /\ emb_self = [tiktoken_enabled |-> TRUE, embedding_ctx_length |-> 1,
                   chunk_size |-> 1, skip_empty |-> FALSE]
    /\ texts = <<>>
    /\ epc = "idle"
    /\ tokens = <<>>
    /\ indices = <<>>
    /\ offset = 0
    /\ batched_embeddings = <<>>
    /\ emb_requests = <<>>
    /\ embeddings = <<>>
    /\ cached_empty = None
    /\ emb_result = <<>>
    /\ emb_error = NoError
    /\ emb_call = [surface |-> "sync", chunk_size |-> 0]
    /\ transport = "reliable"
    /\ in_flight = <<>>
    /\ \E ts \in SUBSET TopKeys, ks \in SUBSET KwKeys,
          hk \in BOOLEAN, ek \in BOOLEAN :
          /\ ~hk => ks = {}
          /\ cfg = [NoConfig EXCEPT !.pc = "new",
                                    !.top = [k \in ts |-> "t"],
                                    !.kw = [k \in ks |-> "k"],
                                    !.has_kw = hk,
                                    !.env_key = ek]

\* CompressaEmbeddings(model_kwargs=kw, ...top)
EmbConstruct ==
    /\ cfg.pc = "new"
    /\ \E r \in {Instantiate(EmbeddingsBases, cfg.top, cfg.kw, cfg.has_kw,
                              cfg.env_key)} :
          cfg' = [cfg EXCEPT !.pc = IF r.error = NoError THEN "ready"
                                   ELSE "invalid",
                             !.error = r.error,
                             !.warnings = r.warnings,
                             !.params = r.params,
                             !.credential = r.credential]
    /\ UNCHANGED <<emb_self, texts, epc, tokens, indices, offset,
                   batched_embeddings, emb_requests, embeddings, cached_empty,
                   emb_result, emb_error, emb_call, transport, in_flight>>
    /\ UNCHANGED llmVars

NextCfg == EmbConstruct

SpecCfg == InitCfg /\ [][NextCfg]_vars

-----------------------------------------------------------------------------
(* BaseCompressaLLM *)

MaxN == 2
MaxPrompts == 3
MaxDeltas == 2
MaxStreams == 2

BatchSizes == {1, 2}
\* max_tokens: the default, and -1 ("as many as fit")
MaxTokensValues == {-1, 256}
\* the text deltas a stream may deliver
DeltaTexts == {"a", "b"}

\* a faulty validator that forgets the best_of check
StreamingErrorNOnly(values, has_key) ==
    IF values.n < 1 THEN "n must be at least 1."
    ELSE IF values.streaming /\ values.n > 1
    THEN "Cannot stream results when n > 1."
    ELSE IF ~has_key THEN "Did not find compressa_api_key"
    ELSE NoError

\* validate_environment: the first check that fails, or NoError
validate_environment(values, has_key) ==
    IF values.n < 1 THEN "n must be at least 1."
    ELSE IF values.streaming /\ values.n > 1
    THEN "Cannot stream results when n > 1."
    ELSE IF values.streaming /\ values.best_of > 1
    THEN "Cannot stream results when best_of > 1."
    ELSE IF ~has_key THEN "Did not find compressa_api_key"
    ELSE NoError

\* get_sub_prompts: prompts[i : i + batch_size] for i in range(0, len, batch_size)
SubPrompts(ps, batch_size) ==
    LET is == Range(0, Len(ps), batch_size)
    IN  [k \in 1 .. Len(is) |-> Slice(ps, is[k], is[k] + batch_size)]

\* get_sub_prompts: the error it raises for max_tokens == -1.  With one prompt
\* it asks for self.max_tokens_for_prompt, which the class does not define.
get_sub_prompts_error(self, ps) ==
    IF self.max_tokens = -1
    THEN IF Len(ps) # 1
         THEN "max_tokens set to -1 not supported for multiple inputs."
         ELSE "AttributeError"
    ELSE NoError

\* the streaming branch's guard, per sub-batch: len(_prompts) > 1
StreamRejects(_prompts) == Len(_prompts) > 1

\* a faulty reshape: the window advances by one choice per prompt
SubChoicesStrideOne(chs, i, n) == Slice(chs, i, i + n)

\* choices[i * n : (i + 1) * n]
SubChoices(chs, i, n) == Slice(chs, i * n, (i + 1) * n)

Generation(choice) ==
    [text |-> choice.text,
     generation_info |-> [finish_reason |-> choice.finish_reason,
                          logprobs |-> choice.logprobs]]

\* create_llm_result: one list of generations per prompt
create_llm_result(chs, ps, n) ==
    [p \in 1 .. Len(ps) |->
        LET sub_choices == SubChoices(chs, p - 1, n)
        IN  [k \in 1 .. Len(sub_choices) |-> Generation(sub_choices[k])]]

\* the choice a non-streaming response carries at flat position id
Choice(id) == [text |-> <<id>>, finish_reason |-> "stop", logprobs |-> "None"]

\* the choice appended for a finished stream: the generation's text, the
\* generation_info of its chunks
StreamChoice(deltas) ==
    [text |-> deltas, finish_reason |-> "stop", logprobs |-> "None"]

\* no embedding call exists while the completion model is studied
EmbIdle ==
    /\ emb_self = [tiktoken_enabled |-> TRUE, embedding_ctx_length |-> 1,
                   chunk_size |-> 1, skip_empty |-> FALSE]
    /\ texts = <<>>
    /\ epc = "idle"
    /\ tokens = <<>>
    /\ indices = <<>>
    /\ offset = 0
    /\ batched_embeddings = <<>>
    /\ emb_requests = <<>>
    /\ embeddings = <<>>
    /\ cached_empty = None
    /\ emb_result = <<>>
    /\ emb_error = NoError
    /\ emb_call = [surface |-> "sync", chunk_size |-> 0]
    /\ transport = "reliable"
    /\ cfg = NoConfig
    /\ in_flight = <<>>

\* _default_params, and "model" added by CompressaLLM._invocation_params:
\* {**normal_params, **self.model_kwargs}
_default_params(self, kwargs) ==
    Merge([k \in {"model", "temperature", "top_p", "frequency_penalty",
                  "presence_penalty", "n", "logit_bias", "max_tokens",
                  "best_of"} |->
              IF k = "n" THEN self.n
              ELSE IF k = "max_tokens" THEN self.max_tokens
              ELSE IF k = "best_of" THEN self.best_of
              ELSE 0],
          kwargs)

\* a faulty get_sub_prompts that lets the explicit stop replace the default
StopOverrides(params, stop) == FALSE

\* get_sub_prompts, lines 419-421: stop given and "stop" already in params
StopConflict(params, stop) == stop # NoStop /\ "stop" \in DOMAIN params

\* get_sub_prompts: what it raises, the stop conflict first
get_sub_prompts_raises(self, params, ps, stop) ==
    IF StopConflict(params, stop)
    THEN "stop found in both the input and default params."
    ELSE get_sub_prompts_error(self, ps)

\* _keys
UsageKeys == {"completion_tokens", "prompt_tokens", "total_tokens"}

FullUsage == [k \in UsageKeys |-> IF k = "total_tokens" THEN 2 ELSE 1]

\* the usage objects a response may carry: all counters, some, none
UsageReports ==
    {FullUsage,
     [k \in {"prompt_tokens"} |-> 1],
     [k \in {"completion_tokens", "total_tokens"} |-> 2],
     <<>>}

\* a faulty update that keeps the latest report instead of adding it
UpdateOverwrites(keys, usage, usage_so_far) ==
    LET _keys_to_use == keys \cap DOMAIN usage
    IN  [k \in DOMAIN usage_so_far \cup _keys_to_use |->
            IF k \in _keys_to_use THEN usage[k] ELSE usage_so_far[k]]

\* _update_token_usage on response["usage"] = usage
_update_token_usage(keys, usage, usage_so_far) ==
    LET _keys_to_use == keys \cap DOMAIN usage
    IN  [k \in DOMAIN usage_so_far \cup _keys_to_use |->
            IF k \notin _keys_to_use THEN usage_so_far[k]
            ELSE IF k \notin DOMAIN usage_so_far THEN usage[k]
            ELSE usage_so_far[k] + usage[k]]

\* the fingerprints a response may carry
Fingerprints == {"fp_1", "fp_2"}

\* the non-streaming responses drawn: error is response.get("error") ("" when
\* absent), has_choices whether response["choices"] is a list and not None,
\* has_usage whether the response has a "usage" entry, system_fingerprint is
\* response.get("system_fingerprint") ("" when absent)
Completions(case) ==
    IF case # "payload"
    THEN {[error |-> "", has_choices |-> TRUE, has_usage |-> TRUE,
           usage |-> FullUsage, system_fingerprint |-> ""]}
    ELSE {[error |-> "", has_choices |-> TRUE, has_usage |-> TRUE,
           usage |-> u, system_fingerprint |-> ""] : u \in UsageReports}
         \cup {[error |-> "", has_choices |-> TRUE, has_usage |-> TRUE,
                usage |-> FullUsage, system_fingerprint |-> fp] :
                   fp \in Fingerprints}
         \cup {[error |-> "", has_choices |-> TRUE, has_usage |-> FALSE,
                usage |-> <<>>, system_fingerprint |-> ""],
               [error |-> "overloaded", has_choices |-> FALSE,
                has_usage |-> FALSE, usage |-> <<>>,
                system_fingerprint |-> ""],
               [error |-> "overloaded", has_choices |-> TRUE,
                has_usage |-> TRUE, usage |-> FullUsage,
                system_fingerprint |-> ""]}

\* lines 337-338 of _generate; _agenerate (lines 399-403) has no such check
ChecksErrorPayload(sf) == sf = "sync"

\* lines 342-343 of _generate; _agenerate (lines 399-403) has no such lines
ReadsFingerprint(sf) == sf = "sync"

\* if not system_fingerprint: system_fingerprint = response.get(...)
FirstFingerprint(current, response) ==
    IF current = "" THEN response.system_fingerprint ELSE current

\* create_llm_result, lines 461-463: llm_output
LlmOutput(usage, fingerprint) ==
    IF fingerprint # ""
    THEN [token_usage |-> usage, model_name |-> "model_name",
          system_fingerprint |-> fingerprint]
    ELSE [token_usage |-> usage, model_name |-> "model_name"]

\* the stop arguments and the model_kwargs drawn
StopArgs(case) ==
    IF case # "payload" THEN {NoStop}
    ELSE {NoStop, [given |-> TRUE, value |-> <<"x">>]}
ModelKwargs(case) ==
    IF case # "payload" THEN {<<>>} ELSE {<<>>, [k \in {"stop"} |-> <<"y">>]}

\* how many choices a response carries for want asked: the right number, or,
\* where shapes are studied, one fewer
ChoiceCounts(case, want) ==
    IF case = "shape" THEN {want - 1, want} ELSE {want}

\* the prompts of a generate call: 1, 2, ... up to MaxPrompts of them, up to
\* MaxStreams where streams are studied
PromptLists(case) ==
    {[k \in 1 .. m |-> k] :
        m \in 0 .. (IF case = "stream" THEN MaxStreams ELSE MaxPrompts)}

InitLLM ==
    /\ EmbIdle
    /\ llm_self = [n |-> 1, best_of |-> 1, streaming |-> FALSE,
                   batch_size |-> 1, max_tokens |-> 256]
    /\ lpc = "new"
    /\ surface = "sync"
    /\ prompts = <<>>
    /\ sub_prompts = <<>>
    /\ sub_i = 0
    /\ choices = <<>>
    /\ llm_requests = <<>>
    /\ generations = <<>>
    /\ llm_error = NoError
    /\ llm_case = "shape"
    /\ llm_call = [entry |-> "none", stop |-> NoStop]
    /\ model_kwargs = <<>>
    /\ token_usage = <<>>
    /\ llm_responses = <<>>
    /\ system_fingerprint = ""
    /\ llm_output = <<>>
    /\ generation = NoGeneration
    /\ streams = <<>>

\* CompressaLLM(...): the root validator decides whether the object exists
Construct ==
    /\ lpc = "new"
    /\ \E values \in [n : 0 .. MaxN, best_of : 1 .. MaxN, streaming : BOOLEAN,
                      batch_size : BatchSizes, max_tokens : MaxTokensValues],
          has_key \in BOOLEAN :
          /\ llm_self' = values
          /\ llm_error' = validate_environment(values, has_key)
          /\ lpc' = IF validate_environment(values, has_key) = NoError
                    THEN "ready" ELSE "invalid"
    /\ model_kwargs' \in ModelKwargs(llm_case)
    /\ UNCHANGED <<surface, prompts, sub_prompts, sub_i, choices, llm_requests,
                   generations, llm_case, llm_call, token_usage,
                   llm_responses, llmStream>>
    /\ UNCHANGED <<embVars, llmOut>>

\* _generate / _agenerate up to the loop: params, get_sub_prompts
Generate ==
    /\ lpc = "ready"
    /\ \E ps \in PromptLists(llm_case),
          sf \in {"sync", "async"},
          stop \in StopArgs(llm_case) :
          /\ prompts' = ps
          /\ surface' = sf
          /\ llm_call' = [entry |-> "_generate", stop |-> stop]
          /\ \E err \in {get_sub_prompts_raises(llm_self,
                            _default_params(llm_self, model_kwargs), ps,
                            stop)} :
                IF err # NoError
                THEN /\ lpc' = "error"
                     /\ llm_error' = err
                     /\ UNCHANGED sub_prompts
                ELSE /\ lpc' = "generating"
                     /\ sub_prompts' = SubPrompts(ps, llm_self.batch_size)
                     /\ UNCHANGED llm_error
    /\ UNCHANGED <<llm_self, sub_i, choices, llm_requests, generations,
                   llm_case, model_kwargs, token_usage, llm_responses,
                   llmStream>>
    /\ UNCHANGED <<embVars, llmOut>>

\* a stream response whose "choices" list is empty
NoChoices == ""

\* what a stream may deliver: where streams are studied, a text delta or a
\* response without choices; elsewhere one delta text only
StreamResponses(case) ==
    IF case = "stream" THEN DeltaTexts \cup {NoChoices} ELSE {"a"}

\* _stream_response_to_generation_chunk: text "" when there are no choices,
\* else the text of choices[0]
_stream_response_to_generation_chunk(stream_response) ==
    [set |-> TRUE,
     text |-> IF stream_response = NoChoices THEN <<>>
              ELSE <<stream_response>>]

\* a faulty accumulation that puts the new chunk in front
AddChunkInFront(g, chunk) == [set |-> TRUE, text |-> chunk.text \o g.text]

\* generation += chunk (GenerationChunk.__add__: the texts concatenated)
AddChunk(g, chunk) == [set |-> TRUE, text |-> g.text \o chunk.text]

\* lines 306-309: the first chunk is taken as it is, later ones are added
Accumulate(g, chunk) == IF ~g.set THEN chunk ELSE AddChunk(g, chunk)

\* one turn of "for _prompts in sub_prompts", streaming: the check, then
\* generation = None and the request that self._stream(_prompts[0], ...) sends
StreamOpen ==
    /\ lpc = "generating"
    /\ llm_self.streaming
    /\ sub_i < Len(sub_prompts)
    /\ \E _prompts \in {sub_prompts[sub_i + 1]} :
          IF StreamRejects(_prompts)
          THEN /\ lpc' = "error"
               /\ llm_error' = "Cannot stream results with multiple prompts."
               /\ UNCHANGED <<llm_requests, llmStream>>
          ELSE /\ llm_requests' = Append(llm_requests,
                     [prompt |-> <<_prompts[1]>>, stream |-> TRUE,
                      client |-> surface])
               /\ generation' = NoGeneration
               /\ streams' = Append(streams, <<>>)
               /\ lpc' = "streaming"
               /\ UNCHANGED llm_error
    /\ UNCHANGED <<llm_self, surface, prompts, sub_prompts, sub_i, choices,
                   generations, llmEnv, token_usage, llm_responses>>
    /\ UNCHANGED <<embVars, llmOut>>

\* one turn of "for chunk in self._stream(...)": a stream response arrives,
\* is converted and accumulated
StreamDelta ==
    /\ lpc = "streaming"
    /\ Len(streams[Len(streams)]) < MaxDeltas
    /\ \E stream_resp \in StreamResponses(llm_case) :
          /\ streams' = [streams EXCEPT ![Len(streams)] = Append(@, stream_resp)]
          /\ generation' = Accumulate(generation,
                _stream_response_to_generation_chunk(stream_resp))
    /\ UNCHANGED <<llm_self, lpc, surface, prompts, sub_prompts, sub_i, choices,
                   llm_requests, generations, llm_error, llmEnv, token_usage,
                   llm_responses>>
    /\ UNCHANGED <<embVars, llmOut>>

\* the stream ends: assert generation is not None, then choices.append
StreamClose ==
    /\ lpc = "streaming"
    /\ IF ~generation.set
       THEN /\ lpc' = "error"
            /\ llm_error' = "AssertionError"
            /\ UNCHANGED <<sub_i, choices>>
       ELSE /\ choices' = Append(choices, StreamChoice(generation.text))
            /\ sub_i' = sub_i + 1
            /\ lpc' = "generating"
            /\ UNCHANGED llm_error
    /\ UNCHANGED <<llm_self, surface, prompts, sub_prompts, llm_requests,
                   generations, llmEnv, token_usage, llm_responses, llmStream>>
    /\ UNCHANGED <<embVars, llmOut>>

\* one turn of the loop, not streaming: one request for the sub-batch, then
\* the error check (_generate only), choices.extend and _update_token_usage.
\* The response carries len(_prompts) * n choices, or one fewer when malformed.
CompletionSubBatch ==
    /\ lpc = "generating"
    /\ ~llm_self.streaming
    /\ sub_i < Len(sub_prompts)
    /\ \E _prompts \in {sub_prompts[sub_i + 1]},
          response \in Completions(llm_case) :
          \E got \in ChoiceCounts(llm_case, Len(_prompts) * llm_self.n) :
              /\ got >= 0
              /\ llm_requests' = Append(llm_requests,
                    [prompt |-> _prompts, stream |-> FALSE, client |-> surface])
              /\ llm_responses' = Append(llm_responses, response)
              /\ IF ChecksErrorPayload(surface) /\ response.error # ""
                 THEN /\ lpc' = "error"
                      /\ llm_error' = response.error
                      /\ UNCHANGED <<choices, token_usage, sub_i,
                                     system_fingerprint>>
                 ELSE IF ~response.has_choices
                 THEN /\ lpc' = "error"
                      /\ llm_error' = "TypeError"
                      /\ UNCHANGED <<choices, token_usage, sub_i,
                                     system_fingerprint>>
                 ELSE IF ~response.has_usage
                 THEN /\ lpc' = "error"
                      /\ llm_error' = "KeyError"
                      /\ choices' = choices \o
                            [k \in 1 .. got |-> Choice(Len(choices) + k)]
                      /\ UNCHANGED <<token_usage, sub_i, system_fingerprint>>
                 ELSE /\ choices' = choices \o
                            [k \in 1 .. got |-> Choice(Len(choices) + k)]
                      /\ token_usage' = _update_token_usage(UsageKeys,
                            response.usage, token_usage)
                      /\ system_fingerprint' =
                            IF ReadsFingerprint(surface)
                            THEN FirstFingerprint(system_fingerprint, response)
                            ELSE system_fingerprint
                      /\ sub_i' = sub_i + 1
                      /\ UNCHANGED <<lpc, llm_error>>
    /\ UNCHANGED <<llm_self, surface, prompts, sub_prompts, generations,
                   llmEnv, llmStream>>
    /\ UNCHANGED <<embVars, llm_output>>

\* the return: create_llm_result
ReturnResult ==
    /\ lpc = "generating"
    /\ sub_i >= Len(sub_prompts)
    /\ generations' = create_llm_result(choices, prompts, llm_self.n)
    /\ llm_output' = LlmOutput(token_usage, system_fingerprint)
    /\ lpc' = "done"
    /\ UNCHANGED <<llm_self, surface, prompts, sub_prompts, sub_i, choices,
                   llm_requests, llm_error, llmEnv, token_usage,
                   llm_responses, llmStream>>
    /\ UNCHANGED <<embVars, system_fingerprint>>

NextLLM ==
    \/ Construct
    \/ Generate
    \/ StreamOpen
    \/ StreamDelta
    \/ StreamClose
    \/ CompletionSubBatch
    \/ ReturnResult

SpecLLM == InitLLM /\ [][NextLLM]_vars

-----------------------------------------------------------------------------
(* Completion calls with stop arguments, error payloads and usage reports *)

InitGen ==
    /\ EmbIdle
    /\ llm_self = [n |-> 1, best_of |-> 1, streaming |-> FALSE,
                   batch_size |-> 1, max_tokens |-> 256]
    /\ lpc = "new"
    /\ surface = "sync"
    /\ prompts = <<>>
    /\ sub_prompts = <<>>
    /\ sub_i = 0
    /\ choices = <<>>
    /\ llm_requests = <<>>
    /\ generations = <<>>
    /\ llm_error = NoError
    /\ llm_case = "payload"
    /\ llm_call = [entry |-> "none", stop |-> NoStop]
    /\ model_kwargs = <<>>
    /\ token_usage = <<>>
    /\ llm_responses = <<>>
    /\ system_fingerprint = ""
    /\ llm_output = <<>>
    /\ generation = NoGeneration
    /\ streams = <<>>

\* _stream / _astream called on one prompt and iterated to its end: params,
\* get_sub_prompts, then the request and its chunks
Stream ==
    /\ lpc = "ready"
    /\ \E sf \in {"sync", "async"}, stop \in StopArgs(llm_case) :
          /\ prompts' = <<1>>
          /\ surface' = sf
          /\ llm_call' = [entry |-> "_stream", stop |-> stop]
          /\ \E err \in {get_sub_prompts_raises(llm_self,
                            _default_params(llm_self, model_kwargs), <<1>>,
                            stop)} :
                IF err # NoError
                THEN /\ lpc' = "error"
                     /\ llm_error' = err
                     /\ UNCHANGED <<llm_requests, choices>>
                ELSE /\ lpc' = "streamed"
                     /\ llm_requests' = Append(llm_requests,
                           [prompt |-> <<1>>, stream |-> TRUE, client |-> sf])
                     /\ \E deltas \in SeqsUpTo(DeltaTexts, MaxDeltas) :
                           choices' = [k \in 1 .. Len(deltas) |->
                                          StreamChoice(<<deltas[k]>>)]
                     /\ UNCHANGED llm_error
    /\ UNCHANGED <<llm_self, sub_prompts, sub_i, generations, llm_case,
                   model_kwargs, token_usage, llm_responses, llmStream>>
    /\ UNCHANGED <<embVars, llmOut>>

NextGen ==
    \/ NextLLM
    \/ Stream

SpecGen == InitGen /\ [][NextGen]_vars

-----------------------------------------------------------------------------
(* Completion calls whose streams deliver any responses *)

InitStream ==
    /\ EmbIdle
    /\ llm_self = [n |-> 1, best_of |-> 1, streaming |-> FALSE,
                   batch_size |-> 1, max_tokens |-> 256]
    /\ lpc = "new"
    /\ surface = "sync"
    /\ prompts = <<>>
    /\ sub_prompts = <<>>
    /\ sub_i = 0
    /\ choices = <<>>
    /\ llm_requests = <<>>
    /\ generations = <<>>
    /\ llm_error = NoError
    /\ llm_case = "stream"
    /\ llm_call = [entry |-> "none", stop |-> NoStop]
    /\ model_kwargs = <<>>
    /\ token_usage = <<>>
    /\ llm_responses = <<>>
    /\ system_fingerprint = ""
    /\ llm_output = <<>>
    /\ generation = NoGeneration
    /\ streams = <<>>

SpecStream == InitStream /\ [][NextLLM]_vars

-----------------------------------------------------------------------------
(* Vocabulary of the properties *)

\* ceil(a / b) for b > 0
Ceil(a, b) == (a + b - 1) \div b

\* the embedding call has left its batch loop
EmbFinished == epc \in {"done", "error"}

\* chunks filed under text i (1-based) that take part in its aggregation
Contrib(i) ==
    {c \in 1 .. Len(indices) :
        /\ indices[c] = i - 1
        /\ ~(emb_self.skip_empty /\ Len(batched_embeddings[c]) = 1)}

\* the chunks of the set con, in list order
InOrder(con) ==
    SelectSeq([c \in 1 .. Len(indices) |-> c], LAMBDA c : c \in con)

\* the shortest embedding among the chunks of con: the dimensions zip keeps
MinDim(con) ==
    CHOOSE m \in {Len(batched_embeddings[c]) : c \in con} :
        \A c \in con : m <= Len(batched_embeddings[c])

\* sum over the chunks of con of embedding[d] * weight
WeightedSum(con, d, w) ==
    Sum([c \in 1 .. Len(indices) |->
            IF c \in con THEN batched_embeddings[c][d] * w[c] ELSE 0])

\* sum over the chunks of con of their weights
TotalOf(con, w) ==
    Sum([c \in 1 .. Len(indices) |-> IF c \in con THEN w[c] ELSE 0])

\* len(tokens[c]): what the chunk list holds for chunk c
ListLength(c) == Len(tokens[c])

\* number of chunks of a text of n tokens
ChunkCount(n) == Ceil(n, emb_self.embedding_ctx_length)

\* position of the first chunk of text i in the flat chunk list
FirstChunk(i) == 1 + Sum([u \in 1 .. i - 1 |-> ChunkCount(Len(texts[u]))])

\* the k-th token slice of text i, from the text itself
SliceOf(i, k) ==
    SubSeq(texts[i], (k - 1) * emb_self.embedding_ctx_length + 1,
           Min(k * emb_self.embedding_ctx_length, Len(texts[i])))

\* number of tokens in chunk c
TokenCount(c) == Len(SliceOf(indices[c] + 1, c - FirstChunk(indices[c] + 1) + 1))

\* the two weightings of the chunk list: by list length, by token count
ListLengths == [c \in 1 .. Len(indices) |-> ListLength(c)]
TokenCounts == [c \in 1 .. Len(indices) |-> TokenCount(c)]

\* the requests of the call, by kind
BatchRequests == SelectSeq(emb_requests, LAMBDA r : r.kind = "batch")
EmptyRequests == SelectSeq(emb_requests, LAMBDA r : r.kind = "text")

-----------------------------------------------------------------------------
(* C1 *)

\* C1: when the call returns (every batch response having carried one
\* embedding per chunk), the list has len(texts) entries, the chunks filed
\* under text i are exactly the chunks of texts[i], and entry i is the
\* aggregate of the contributing chunks of text i in list order, or the
\* empty-string embedding when none contributes.
C1_LengthAndOrder ==
    (epc = "done" /\ Len(batched_embeddings) = Len(tokens)) =>
        /\ Len(emb_result) = Len(texts)
        /\ \A i \in 1 .. Len(texts) :
              LET con == Contrib(i)
                  cs  == InOrder(con)
              IN  /\ {c \in 1 .. Len(indices) : indices[c] = i - 1} =
                        FirstChunk(i) .. FirstChunk(i + 1) - 1
                  /\ IF con = {}
                     THEN /\ cached_empty # None
                          /\ emb_result[i] = cached_empty
                     ELSE emb_result[i] =
                            AggregateText(
                                [k \in 1 .. Len(cs) |-> batched_embeddings[cs[k]]],
                                [k \in 1 .. Len(cs) |-> Len(tokens[cs[k]])]).value

\* a returned call over an empty text followed by a text of several chunks
C1_Witness ==
    /\ epc = "done"
    /\ Len(texts) = 2
    /\ texts[1] = <<>>
    /\ Cardinality(Contrib(2)) >= 2
    /\ emb_result[1].kind = "raw"
    /\ emb_result[2].kind = "normalized"

-----------------------------------------------------------------------------
(* C2 *)

\* every input of zero tokens has been given the empty-string embedding
EmptyInputsFilled ==
    \A i \in 1 .. Len(texts) :
        Len(texts[i]) = 0 => cached_empty # None /\ emb_result[i] = cached_empty

\* C2 as stated: every input of zero tokens receives the empty-string
\* embedding, the "" request is issued at most once, and it is not issued
\* when no input produced zero chunks.
C2_Original ==
    /\ Len(EmptyRequests) <= 1
    /\ epc = "done" =>
          /\ EmptyInputsFilled
          /\ (\A i \in 1 .. Len(texts) : Len(texts[i]) > 0) =>
                Len(EmptyRequests) = 0

\* C2, amended: every input of zero tokens receives the empty-string
\* embedding; the "" request is issued at most once per call, exactly once
\* when some input has no chunk contributing to aggregation (it produced no
\* chunk, or skip_empty dropped all of its chunks), and not at all otherwise.
C2_EmptyOnce ==
    LET sent == Len(EmptyRequests)
    IN  /\ sent <= 1
        /\ epc = "done" =>
              /\ EmptyInputsFilled
              /\ sent = IF \E i \in 1 .. Len(texts) : Contrib(i) = {}
                        THEN 1 ELSE 0
              /\ sent = 1 => emb_requests[Len(emb_requests)] = EmptyRequestRec

\* a returned call in which two inputs were empty and one request served both
C2_Witness ==
    /\ epc = "done"
    /\ Len(texts) = 2
    /\ texts[1] = <<>>
    /\ texts[2] = <<>>
    /\ Len(EmptyRequests) = 1
    /\ emb_result[1] = emb_result[2]

-----------------------------------------------------------------------------
(* C3 *)

\* C3 as stated: for a text with two or more contributing chunks the average
\* before normalisation is, per dimension, the sum of embedding * token count
\* over the sum of token counts, under either backend (compared as fractions).
C3_Original ==
    epc = "done" =>
        \A i \in 1 .. Len(texts) :
            LET con == Contrib(i)
            IN  Cardinality(con) >= 2 =>
                    /\ emb_result[i].kind = "normalized"
                    /\ Len(emb_result[i].vec) = MinDim(con)
                    /\ \A d \in 1 .. MinDim(con) :
                          emb_result[i].vec[d] * TotalOf(con, TokenCounts) =
                              WeightedSum(con, d, TokenCounts) * emb_result[i].den

\* C3, amended: the weight of a chunk is the length of its entry in the chunk
\* list: its token count under tiktoken, the number of characters of its
\* decoded text under transformers.  Lengths 3 and 1 with embeddings [1,0]
\* and [0,1] average to [3/4, 1/4].
C3_WeightedAverage ==
    /\ epc = "done" =>
          \A i \in 1 .. Len(texts) :
              LET con == Contrib(i)
              IN  Cardinality(con) >= 2 =>
                      /\ emb_result[i].kind = "normalized"
                      /\ Len(emb_result[i].vec) = MinDim(con)
                      /\ emb_result[i].den = TotalOf(con, ListLengths)
                      /\ \A d \in 1 .. Len(emb_result[i].vec) :
                            emb_result[i].vec[d] = WeightedSum(con, d, ListLengths)
                      /\ \A c \in con :
                            ListLength(c) =
                                IF emb_self.tiktoken_enabled
                                THEN TokenCount(c)
                                ELSE Len(decode(SliceOf(i, c - FirstChunk(i) + 1)))
    /\ epc = "start" =>
          AggregateText(<<<<1, 0>>, <<0, 1>>>>, <<3, 1>>).value =
              Normalized(<<3, 1>>, 4)

\* a returned call, tiktoken, with a text of two chunks of 2 and 1 tokens
C3_Witness ==
    /\ epc = "done"
    /\ emb_self.tiktoken_enabled
    /\ \E i \in 1 .. Len(texts) :
          /\ Cardinality(Contrib(i)) = 2
          /\ {ListLength(c) : c \in Contrib(i)} = {1, 2}
          /\ emb_result[i].den = 3

-----------------------------------------------------------------------------
(* C4 *)

\* C4: a text with exactly one contributing chunk gets that chunk's embedding
\* as the endpoint returned it.
C4_SingleChunk ==
    epc = "done" =>
        \A i \in 1 .. Len(texts) :
            LET con == Contrib(i)
            IN  \A c \in con :
                    con = {c} => emb_result[i] = Raw(batched_embeddings[c])

\* a returned call with a one-chunk text beside a text of several chunks
C4_Witness ==
    /\ epc = "done"
    /\ \E i, j \in 1 .. Len(texts) :
          /\ Cardinality(Contrib(i)) = 1
          /\ emb_result[i].kind = "raw"
          /\ Cardinality(Contrib(j)) >= 2

-----------------------------------------------------------------------------
(* C5 *)

\* text i is aggregated from several chunks whose total weight is zero
ZeroWeight(i) ==
    LET con == Contrib(i)
    IN  Cardinality(con) >= 2 /\ TotalOf(con, ListLengths) = 0

\* text i is aggregated from several chunks whose weighted average is zero
ZeroNorm(i) ==
    LET con == Contrib(i)
    IN  /\ Cardinality(con) >= 2
        /\ \A d \in 1 .. MinDim(con) : WeightedSum(con, d, ListLengths) = 0

FiniteEntry(e) ==
    e.kind = "normalized" => e.den # 0 /\ \E d \in 1 .. Len(e.vec) : e.vec[d] # 0

\* C5: when some text aggregated from several chunks has zero total weight or
\* a zero weighted average, the call ends in an error, and every vector a
\* call returns is finite.
C5_DegenerateFails ==
    /\ epc = "done" =>
          /\ \A i \in 1 .. Len(texts) : ~ZeroWeight(i) /\ ~ZeroNorm(i)
          /\ \A i \in 1 .. Len(emb_result) : FiniteEntry(emb_result[i])
    /\ epc = "error" => emb_error = "ZeroDivisionError"

\* a failed call in which a text's chunks all have weight zero
C5_Witness ==
    /\ epc = "error"
    /\ emb_error = "ZeroDivisionError"
    /\ \E i \in 1 .. Len(texts) : ZeroWeight(i)

\* a failed call in which a text's chunks have weight and cancel out
C5_WitnessZeroNorm ==
    /\ epc = "error"
    /\ \E i \in 1 .. Len(texts) : ZeroNorm(i) /\ ~ZeroWeight(i)

-----------------------------------------------------------------------------
(* C6 *)

\* C6: after _tokenize, text i of n tokens has ceil(n / L) chunks, in slice
\* order; the k-th is the slice of at most L tokens starting at token
\* (k-1)*L (decoded, under transformers); every slice but the last has L
\* tokens and the last has between 1 and L; the slices joined are the text.
\* A text of k*L + 1 tokens has k + 1 chunks, the last of one token.
C6_Chunking ==
    epc = "batches" =>
        /\ Len(indices) = Len(tokens)
        /\ Len(tokens) = FirstChunk(Len(texts) + 1) - 1
        /\ \A i \in 1 .. Len(texts) :
              LET n == Len(texts[i])
                  L == emb_self.embedding_ctx_length
                  first == FirstChunk(i)
                  m == ChunkCount(n)
              IN  /\ (n % L = 1) => m = (n - 1) \div L + 1
                  /\ Flatten([k \in 1 .. m |-> SliceOf(i, k)]) = texts[i]
                  /\ \A k \in 1 .. m :
                        LET slice == SliceOf(i, k)
                        IN  /\ indices[first + k - 1] = i - 1
                            /\ Len(slice) \in 1 .. L
                            /\ k < m => Len(slice) = L
                            /\ (k = m /\ n % L = 1) => Len(slice) = 1
                            /\ tokens[first + k - 1] =
                                  IF emb_self.tiktoken_enabled
                                  THEN slice ELSE decode(slice)

\* a tokenized text of 2 * L + 1 tokens: three chunks, the last of one token
C6_Witness ==
    /\ epc = "batches"
    /\ emb_self.tiktoken_enabled
    /\ emb_self.embedding_ctx_length = 1
    /\ \E i \in 1 .. Len(texts) :
          /\ Len(texts[i]) = 2 * emb_self.embedding_ctx_length + 1
          /\ FirstChunk(i + 1) - FirstChunk(i) = 3
          /\ Len(tokens[FirstChunk(i + 1) - 1]) = 1

-----------------------------------------------------------------------------
(* C7 *)

\* C7: the batch requests issued so far carry, joined in issue order, a prefix
\* of the flat chunk list, each between 1 and B chunks; once the loop is over
\* there are ceil(C / B) of them and they carry the whole list.
C7_BatchWindows ==
    epc \in {"batches", "done", "error"} =>
        LET reqs == BatchRequests
            sent == Flatten([r \in 1 .. Len(reqs) |-> reqs[r].input])
        IN  /\ \A r \in 1 .. Len(reqs) :
                  Len(reqs[r].input) \in 1 .. CallChunkSize
            /\ sent = SubSeq(tokens, 1, Min(offset * CallChunkSize, Len(tokens)))
            /\ Len(reqs) = offset
            /\ EmbFinished =>
                  /\ Len(reqs) = Ceil(Len(tokens), CallChunkSize)
                  /\ sent = tokens

\* a finished call with three chunks from two texts sent in batches of two
C7_Witness ==
    /\ EmbFinished
    /\ CallChunkSize = 2
    /\ Len(tokens) = 3
    /\ Len(texts) = 2
    /\ Len(BatchRequests) = 2
    /\ \E r \in 1 .. Len(BatchRequests) :
          /\ Len(BatchRequests[r].input) = 2
          /\ indices[2 * r - 1] # indices[2 * r]

-----------------------------------------------------------------------------
(* C8 *)

\* C8: create_llm_result over P prompts and a flat list of P * n choices
\* gives P groups, group i holding choices i*n .. (i+1)*n - 1, in order.
C8_Reshape ==
    (lpc = "done" /\ Len(choices) = Len(prompts) * llm_self.n) =>
        /\ Len(generations) = Len(prompts)
        /\ \A i \in 1 .. Len(prompts) :
              /\ Len(generations[i]) = llm_self.n
              /\ \A k \in 1 .. llm_self.n :
                    generations[i][k].text =
                        choices[(i - 1) * llm_self.n + k].text

\* a returned call over three prompts with two completions each
C8_Witness ==
    /\ lpc = "done"
    /\ llm_self.n = 2
    /\ Len(prompts) = 3
    /\ Len(choices) = 6
    /\ generations[3][2].text = <<6>>

-----------------------------------------------------------------------------
(* C9 *)

\* streaming is asked for together with n > 1 or best_of > 1
StreamingConflict ==
    llm_self.streaming /\ (llm_self.n > 1 \/ llm_self.best_of > 1)

\* C9: a construction with streaming and n > 1, or streaming and best_of > 1,
\* ends in a configuration error, and no request is ever sent.
C9_StreamingRejected ==
    StreamingConflict =>
        /\ lpc = "invalid"
        /\ llm_error \in {"n must be at least 1.",
                          "Cannot stream results when n > 1.",
                          "Cannot stream results when best_of > 1."}
        /\ llm_requests = <<>>

\* a rejected construction with streaming, n = 1 and best_of = 2
C9_Witness ==
    /\ lpc = "invalid"
    /\ llm_self.streaming
    /\ llm_self.n = 1
    /\ llm_self.best_of = 2
    /\ llm_error = "Cannot stream results when best_of > 1."

-----------------------------------------------------------------------------
(* C10 *)

\* C10 as stated: in streaming mode a generate call with more than one prompt
\* never issues a request and never returns a result.
C10_MultiPromptRejected ==
    (llm_self.streaming /\ Len(prompts) > 1) =>
        /\ llm_requests = <<>>
        /\ lpc # "done"

-----------------------------------------------------------------------------
(* C11 *)

\* requests of the call that have been answered
Answered == offset + (IF cached_empty # None THEN 1 ELSE 0)

\* C11: on the cooperative surface at most one request is awaited at any
\* time; every request but the awaited one has been answered, so batch k+1 is
\* issued only after the response of batch k was received; and the k-th batch
\* request carries the window at the k-th offset.
C11_OneInFlight ==
    emb_call.surface = "async" =>
        LET reqs == BatchRequests
        IN  /\ Len(in_flight) <= 1
            /\ Len(emb_requests) = Answered + Len(in_flight)
            /\ Len(batched_embeddings) =
                  Sum([k \in 1 .. offset |-> Len(reqs[k].input)])
            /\ \A k \in 1 .. Len(reqs) :
                  reqs[k].input =
                      Slice(tokens, (k - 1) * CallChunkSize, k * CallChunkSize)

\* the second batch is awaited, the first having been answered
C11_Witness ==
    /\ emb_call.surface = "async"
    /\ epc = "batches"
    /\ offset = 1
    /\ Len(in_flight) = 1
    /\ Len(BatchRequests) = 2
    /\ Len(batched_embeddings) = Len(BatchRequests[1].input)

-----------------------------------------------------------------------------
(* C19 *)

\* C19: for the same texts, model and responses, the cooperative call issues
\* the requests the synchronous call issues, in the same order, and returns
\* the same list, or raises the same error.
C19_SameAsSync ==
    (emb_call.surface = "async" /\ epc \in {"done", "error"}) =>
        LET s == _get_len_safe_embeddings(batched_embeddings, cached_empty.vec)
        IN  /\ emb_requests = s.requests
            /\ emb_result = s.result
            /\ emb_error = s.error

\* a cooperative call that returned after two batch requests and a request
\* for the empty string
C19_Witness ==
    /\ emb_call.surface = "async"
    /\ epc = "done"
    /\ Len(BatchRequests) = 2
    /\ Len(EmptyRequests) = 1
    /\ \E i \in 1 .. Len(emb_result) : emb_result[i].kind = "normalized"

-----------------------------------------------------------------------------
(* C12 *)

\* the call was ended by a failed batch request
BatchFailed == emb_error \in Failures(emb_call.surface)

\* C12: once a batch request has failed the call is over with that error:
\* nothing is returned, nothing was aggregated from the batches answered
\* before, the failed request is the last one issued and none is awaited.
C12_FailureAborts ==
    /\ BatchFailed =>
          /\ epc = "error"
          /\ emb_result = <<>>
          /\ embeddings = <<>>
          /\ cached_empty = None
          /\ in_flight = <<>>
          /\ Len(emb_requests) = offset + 1
          /\ emb_requests[Len(emb_requests)].kind = "batch"
    /\ epc = "done" => emb_error = NoError

\* a synchronous call whose second batch request failed after the first was
\* answered
C12_Witness ==
    /\ emb_call.surface = "sync"
    /\ BatchFailed
    /\ epc = "error"
    /\ offset = 1
    /\ Len(emb_requests) = 2
    /\ batched_embeddings # <<>>
    /\ emb_result = <<>>

\* a cooperative call whose second batch request was cancelled
C12_WitnessAsync ==
    /\ emb_call.surface = "async"
    /\ emb_error = "CancelledError"
    /\ epc = "error"
    /\ offset = 1
    /\ Len(emb_requests) = 2
    /\ emb_result = <<>>

-----------------------------------------------------------------------------
(* C15 *)

\* the largest batch the caller asked for: the chunk_size argument, or the
\* model's chunk_size when none is given
AskedChunkSize ==
    IF emb_call.chunk_size # 0 THEN emb_call.chunk_size ELSE emb_self.chunk_size

\* C15 as stated: every batch request of embed_documents(texts, chunk_size)
\* and aembed_documents(texts, chunk_size) carries at most chunk_size chunks,
\* the model's chunk_size counting only when the argument is not given.
C15_ArgumentIsBatchSize ==
    \A r \in 1 .. Len(emb_requests) :
        emb_requests[r].kind = "batch" =>
            Len(emb_requests[r].input) <= AskedChunkSize

-----------------------------------------------------------------------------
(* C18 *)

\* chunks of text i whose entry in the chunk list is not empty
NonEmptyChunks(i) ==
    {c \in 1 .. Len(indices) : indices[c] = i - 1 /\ ListLength(c) # 0}

\* C18 as stated: with skip_empty set, a returned call has aggregated, for
\* every text, exactly the chunks whose reported length is not zero, whatever
\* embeddings the endpoint returned for them.
C18_SkipByTokenLength ==
    (epc = "done" /\ emb_self.skip_empty) =>
        \A i \in 1 .. Len(texts) :
            LET kept == NonEmptyChunks(i)
                cs   == InOrder(kept)
            IN  emb_result[i] =
                    IF kept = {} THEN cached_empty
                    ELSE AggregateText(
                             [k \in 1 .. Len(cs) |-> batched_embeddings[cs[k]]],
                             [k \in 1 .. Len(cs) |-> ListLength(cs[k])]).value

-----------------------------------------------------------------------------
(* C14 *)

\* C14: a CompressaEmbeddings constructor call that passes the API key as a
\* named parameter, and nothing else, succeeds whether or not the environment
\* variable COMPRESSA_API_KEY is set, holds the passed key as its credential,
\* and does not put the key among the parameters sent with each request.
C14_ExplicitKeyIsCredential ==
    (/\ cfg.pc \in {"ready", "invalid"}
     /\ DOMAIN cfg.top = {"compressa_api_key"}
     /\ ~cfg.has_kw)
    => /\ cfg.pc = "ready"
       /\ cfg.credential = cfg.top["compressa_api_key"]
       /\ "compressa_api_key" \notin DOMAIN cfg.params

-----------------------------------------------------------------------------
(* C16 *)

\* the keyword arguments that are not fields of the class
UnknownKeys == DOMAIN cfg.top \ all_required_field_names

\* a key given at top level and in model_kwargs, or a field in model_kwargs
Conflicting ==
    \/ DOMAIN cfg.top \cap DOMAIN cfg.kw # {}
    \/ all_required_field_names \cap DOMAIN cfg.kw # {}

\* C16: with the API key in the environment, a constructor call whose
\* keyword arguments conflict (a key both at top level and in model_kwargs,
\* or a field name inside model_kwargs) is rejected with an error; any other
\* call succeeds, warns about exactly the keys that are not fields, and has
\* each of them, with the value given, in the parameters sent with every
\* request.
C16_UnknownKeysForwarded ==
    (cfg.pc \in {"ready", "invalid"} /\ cfg.env_key)
    => IF Conflicting
       THEN cfg.pc = "invalid"
       ELSE /\ cfg.pc = "ready"
            /\ cfg.warnings = UnknownKeys
            /\ \A k \in UnknownKeys :
                  /\ k \in DOMAIN cfg.params
                  /\ cfg.params[k] = cfg.top[k]

-----------------------------------------------------------------------------
(* C17 *)

\* the call passes a stop sequence and the invocation parameters have "stop"
StopGivenTwice ==
    /\ llm_call.entry # "none"
    /\ llm_call.stop.given
    /\ "stop" \in DOMAIN _default_params(llm_self, model_kwargs)

\* C17: a completion call that passes a stop sequence while the invocation
\* parameters already have a "stop" entry fails with the error about stop
\* being given twice, and no request has been sent; this holds of the
\* non-streaming entry (_generate / _agenerate) and of the streaming entry
\* (_stream / _astream).
C17_StopConflictFailsFirst ==
    StopGivenTwice
    => /\ lpc = "error"
       /\ llm_error = "stop found in both the input and default params."
       /\ llm_requests = <<>>

\* the conflict met on the streaming entry ...
C17_Witness ==
    /\ StopGivenTwice
    /\ llm_call.entry = "_stream"
    /\ lpc = "error"

\* ... and on the non-streaming entry, where max_tokens = -1 would raise too
C17_WitnessGenerate ==
    /\ StopGivenTwice
    /\ llm_call.entry = "_generate"
    /\ llm_self.max_tokens = -1
    /\ Len(prompts) > 1
    /\ lpc = "error"

-----------------------------------------------------------------------------
(* C20 *)

\* the responses of the call that reported the counter key
ReportedBy(key) ==
    {i \in 1 .. Len(llm_responses) : key \in DOMAIN llm_responses[i].usage}

\* the counter key summed over the responses that reported it
ReportedTotal(key) ==
    Sum([i \in 1 .. Len(llm_responses) |->
            IF i \in ReportedBy(key) THEN llm_responses[i].usage[key] ELSE 0])

\* C20: when a non-streaming generate call returns, each of the counters
\* prompt_tokens, completion_tokens and total_tokens is in the returned
\* token_usage with the sum of the values the sub-batch responses reported
\* for it, and a counter that no response reported is not in token_usage.
C20_UsageIsSum ==
    (lpc = "done" /\ ~llm_self.streaming)
    => \A key \in UsageKeys :
          IF ReportedBy(key) = {}
          THEN key \notin DOMAIN token_usage
          ELSE /\ key \in DOMAIN token_usage
               /\ token_usage[key] = ReportedTotal(key)

\* a call over several sub-batches returned, one counter reported more than
\* once and another never
C20_Witness ==
    /\ lpc = "done"
    /\ ~llm_self.streaming
    /\ Len(llm_responses) >= 2
    /\ \E key \in UsageKeys : Cardinality(ReportedBy(key)) >= 2
    /\ \E key \in UsageKeys : ReportedBy(key) = {}

-----------------------------------------------------------------------------
(* C13 *)

\* C13: whenever a non-streaming response of a generate call carried an error
\* payload, on either surface, the call has failed with that error (so no
\* LLMResult is returned).
C13_ErrorPayloadFails ==
    \A i \in 1 .. Len(llm_responses) :
        llm_responses[i].error # ""
        => /\ lpc = "error"
           /\ llm_error = llm_responses[i].error

-----------------------------------------------------------------------------
(* C21 *)

\* the delta texts of the stream responses received on one stream, in order
DeltaTextsOf(stream) ==
    [k \in 1 .. Len(stream) |->
        _stream_response_to_generation_chunk(stream[k]).text]

\* the streams of the call that have ended
Completed ==
    {k \in 1 .. Len(streams) : k < Len(streams) \/ lpc # "streaming"}

\* the choices examined: the one just recorded when a stream has ended, and
\* every choice when the call returns
Recorded ==
    IF lpc = "done" THEN 1 .. Len(choices)
    ELSE IF lpc = "generating" /\ choices # <<>> THEN {Len(choices)}
    ELSE {}

\* C21: in a streaming generate call, while a stream is open the running
\* generation is unset as long as nothing has arrived and otherwise holds the
\* texts of the responses received so far joined in arrival order; the choice
\* recorded when a stream ends, and every choice of a returned call, has the
\* in-order concatenation of all delta texts of its stream; and a stream that ended without delivering anything has made
\* the call fail, with no choice recorded for it and no result returned.
C21_StreamConcatenation ==
    (llm_call.entry = "_generate" /\ llm_self.streaming)
    => /\ lpc = "streaming"
          => LET stream == streams[Len(streams)]
             IN  /\ generation.set <=> stream # <<>>
                 /\ generation.text = Flatten(DeltaTextsOf(stream))
       /\ \A k \in Recorded :
             choices[k].text = Flatten(DeltaTextsOf(streams[k]))
       /\ \A k \in Completed :
             streams[k] = <<>>
             => /\ lpc = "error"
                /\ llm_error = "AssertionError"
                /\ Len(choices) < k
                /\ generations = <<>>

\* a call returned whose stream delivered two different deltas
C21_Witness ==
    /\ llm_call.entry = "_generate"
    /\ llm_self.streaming
    /\ lpc = "done"
    /\ streams = <<(<<"a", "b">>)>>
    /\ generations[1][1].text = <<"a", "b">>

\* a call failed on a stream that delivered nothing, after one that did
C21_WitnessEmpty ==
    /\ llm_call.entry = "_generate"
    /\ llm_self.streaming
    /\ Len(streams) = 2
    /\ streams[2] = <<>>
    /\ lpc = "error"
    /\ llm_error = "AssertionError"

-----------------------------------------------------------------------------
(* C22 *)

\* the responses of the call, in issue order, that carried a fingerprint
WithFingerprint ==
    {i \in 1 .. Len(llm_responses) :
        llm_responses[i].system_fingerprint # ""}

\* C22: when a non-streaming generate call returns and at least one of its
\* sub-batch responses carried a system_fingerprint, llm_output has the
\* fingerprint of the first such response in issue order, on the synchronous
\* and on the cooperative surface alike.
C22_FirstFingerprint ==
    (lpc = "done" /\ ~llm_self.streaming /\ WithFingerprint # {})
    => LET first == CHOOSE i \in WithFingerprint :
                        \A j \in WithFingerprint : i <= j
       IN  /\ "system_fingerprint" \in DOMAIN llm_output
           /\ llm_output.system_fingerprint =
                 llm_responses[first].system_fingerprint

=============================================================================
